---- MODULE Spec2Model ----
(***************************************************************************)
(* Model of src/src/experimental/1_yield_change_calculation_downscaled.py: *)
(* the country-level percentage-yield-change pipeline.                     *)
(*                                                                         *)
(* Numbers.  A float is a record [nan, n, d]: either NaN or the rational   *)
(* n/d in lowest terms with d > 0.  Arithmetic is exact; NaN is absorbing  *)
(* in every operation and every comparison with NaN is false, as in IEEE.  *)
(* The mean of a group is also given in rounding arithmetic (group_mean),  *)
(* on binary floats of Precision bits.                                     *)
(*                                                                         *)
(* Grids.  A DataArray is [lat, lon, den, crs, val]: the coordinates of    *)
(* row i and column j are lat[i]/den and lon[j]/den degrees, crs is the    *)
(* EPSG code (0: none), and val[i][j] is the cell's float.                 *)
(***************************************************************************)
EXTENDS Integers, Sequences, FiniteSets, TLC

\* ------------------------------------------------------------------ bounds

MaxLat == 2
MaxLon == 2
MaxFactor == 3
MaxTotal == 3
MaxCalls == 3
MaxScenarios == 6
MaxPairs == 2
MaxYears == 1
MaxRealizations == 3
Precision == 4

\* ------------------------------------------------------------------ floats

Abs(x) == IF x < 0 THEN 0 - x ELSE x

RECURSIVE GCD(_, _)
GCD(a, b) == IF b = 0 THEN a ELSE GCD(b, a % b)

NaN == [nan |-> TRUE, n |-> 0, d |-> 1]

\* n/d in lowest terms, d # 0
Rat(n, d) ==
    LET g == GCD(Abs(n), Abs(d))
        s == IF d < 0 THEN 0 - 1 ELSE 1
    IN  [nan |-> FALSE, n |-> s * ((Abs(n) \div g) * (IF n < 0 THEN 0 - 1 ELSE 1)), d |-> Abs(d) \div g]

Num(n) == Rat(n, 1)

Zero == Num(0)

FAdd(x, y) == IF x.nan \/ y.nan THEN NaN ELSE Rat(x.n * y.d + y.n * x.d, x.d * y.d)

FSub(x, y) == IF x.nan \/ y.nan THEN NaN ELSE Rat(x.n * y.d - y.n * x.d, x.d * y.d)

FMul(x, y) == IF x.nan \/ y.nan THEN NaN ELSE Rat(x.n * y.n, x.d * y.d)

\* y # 0 wherever the program divides
FDiv(x, y) == IF x.nan \/ y.nan THEN NaN ELSE Rat(x.n * y.d, x.d * y.n)

FGt(x, y) == ~x.nan /\ ~y.nan /\ x.n * y.d > y.n * x.d

\* ------------------------------------------------------------------ helpers on sequences

RECURSIVE SumTo(_, _)
SumTo(s, n) == IF n = 0 THEN Zero ELSE FAdd(SumTo(s, n - 1), s[n])

SumSeq(s) == SumTo(s, Len(s))

\* the cells f[1], ..., f[n], each computed once
RECURSIVE Computed(_, _)
Computed(f, n) == IF n = 0 THEN <<>> ELSE Append(Computed(f, n - 1), f[n])

\* A DataArray has Len(lat) rows of Len(lon) cells.
\* numpy/xarray nansum: missing cells count as 0 (DataArray.sum(skipna=True));
\* the sum over all cells, row by row
sum_skipna(da) ==
    SumTo([i \in 1..Len(da.lat) |->
             SumTo([j \in 1..Len(da.lon) |->
                      LET v == da.val[i][j] IN IF v.nan THEN Zero ELSE v], Len(da.lon))],
          Len(da.lat))

\* DataArray.sum(skipna=False): a NaN cell makes the sum NaN
sum_all(da) ==
    SumTo([i \in 1..Len(da.lat) |-> SumTo(da.val[i], Len(da.lon))], Len(da.lat))

\* the permutation of a stable ascending sort of keys (numpy lexsort, used by sortby)
SortPerm(keys) ==
    LET n == Len(keys)
        rank(i) == Cardinality({j \in 1..n : keys[j] < keys[i] \/ (keys[j] = keys[i] /\ j < i)}) + 1
    IN  [p \in 1..n |-> CHOOSE i \in 1..n : rank(i) = p]

RegularAxis(start, step, n) == [i \in 1..n |-> start + (i - 1) * step]

\* ------------------------------------------------------------------ fix_longitude

\* A Dataset is [data_vars, names, lat, lon, yield]: data_vars the names of its
\* variables, names the component axis' long_name list, and
\* yield[component][time][lat][lon] the floats of variable 'yield'.
permute_lon(rows, p) == [i \in 1..Len(rows) |-> [q \in 1..Len(p) |-> rows[i][p[q]]]]

\* a wrapping that is not a projection: the final "- 180" is lost
wrap_lon_unshifted(lon) == (lon + 180) % 360

wrap_lon(lon) == ((lon + 180) % 360) - 180

\* the wrapped axis left in file order: no sortby
fix_longitude_unsorted(ds) ==
    [ds EXCEPT !.lon = [j \in 1..Len(ds.lon) |-> wrap_lon(ds.lon[j])]]

fix_longitude(ds) ==
    LET newlon == [j \in 1..Len(ds.lon) |-> wrap_lon(ds.lon[j])]
        p == SortPerm(newlon)
    IN  [ds EXCEPT !.lon = [q \in 1..Len(p) |-> newlon[p[q]]],
                   !.yield = [c \in 1..Len(ds.yield) |->
                                [t \in 1..Len(ds.yield[c]) |-> permute_lon(ds.yield[c][t], p)]]]

\* ------------------------------------------------------------------ downscale_data

Degenerate(da) == Len(da.lat) < 2 \/ Len(da.lon) < 2

\* refined axis: each sample becomes k samples, one per sub-cell, on a
\* coordinate denominator 2k times finer
refine_axis(axis, k) ==
    LET step == axis[2] - axis[1]
    IN  [f \in 1..(k * Len(axis)) |->
            2 * k * axis[((f - 1) \div k) + 1] + (2 * ((f - 1) % k) + 1 - k) * step]

\* rio.reproject(dst_crs = EPSG:4326, resolution = delta / factor, nearest):
\* every fine cell takes the value of the coarse cell it lies in
reproject_nearest(da, k) ==
    [da EXCEPT !.lat = refine_axis(da.lat, k),
               !.lon = refine_axis(da.lon, k),
               !.den = 2 * k * da.den,
               !.val = [i \in 1..(k * Len(da.lat)) |->
                          [j \in 1..(k * Len(da.lon)) |->
                             da.val[((i - 1) \div k) + 1][((j - 1) \div k) + 1]]]]

divide_cells(da, q) ==
    [da EXCEPT !.val = [i \in 1..Len(da.lat) |->
                          [j \in 1..Len(da.lon) |-> FDiv(da.val[i][j], Num(q))]]]

write_crs_if_missing(da) == IF da.crs = 0 THEN [da EXCEPT !.crs = 4326] ELSE da

\* the division is applied by one factor only
downscale_data_single_factor(array, k) ==
    LET da == write_crs_if_missing(array)
    IN  IF Degenerate(da) THEN da
        ELSE divide_cells(reproject_nearest(da, k), k)

\* the division is applied before the degenerate grid is returned
downscale_data_divides_degenerate(array, k) ==
    LET da == write_crs_if_missing(array)
    IN  IF Degenerate(da) THEN divide_cells(da, k * k)
        ELSE divide_cells(reproject_nearest(da, k), k * k)

downscale_data(array, k) ==
    LET da == write_crs_if_missing(array)
    IN  IF Degenerate(da) THEN da
        ELSE divide_cells(reproject_nearest(da, k), k * k)

\* ------------------------------------------------------------------ clip_yield_to_country

\* A geometry is a box [lat_lo, lat_hi, lon_lo, lon_hi] in degrees.
\* all_touched: a cell belongs to the geometry when its box overlaps it.
Touches(axis, den, i, lo, hi) ==
    LET step == Abs(axis[2] - axis[1])
    IN  2 * axis[i] - step < 2 * hi * den /\ 2 * axis[i] + step > 2 * lo * den

CellTouched(da, g, i, j) ==
    /\ Touches(da.lat, da.den, i, g.lat_lo, g.lat_hi)
    /\ Touches(da.lon, da.den, j, g.lon_lo, g.lon_hi)

Intersects(da, g) ==
    \E i \in 1..Len(da.lat) : \E j \in 1..Len(da.lon) : CellTouched(da, g, i, j)

\* DataArray.rio.clip(geometries, crs, drop=False, all_touched=True): cells
\* outside the geometry are masked (NaN); fault is an error of the library
\* other than NoDataInBounds
rio_clip(da, g, fault) ==
    IF fault THEN [exc |-> "Exception", value |-> da]
    ELSE IF ~Intersects(da, g) THEN [exc |-> "NoDataInBounds", value |-> da]
    ELSE LET rows == Computed([i \in 1..Len(da.lat) |->
                                 Touches(da.lat, da.den, i, g.lat_lo, g.lat_hi)], Len(da.lat))
             cols == Computed([j \in 1..Len(da.lon) |->
                                 Touches(da.lon, da.den, j, g.lon_lo, g.lon_hi)], Len(da.lon))
         IN  [exc |-> "none",
              value |-> [da EXCEPT !.val = [i \in 1..Len(da.lat) |-> [j \in 1..Len(da.lon) |->
                            IF rows[i] /\ cols[j] THEN da.val[i][j] ELSE NaN]]]]

times_zero(da) ==
    [da EXCEPT !.val = [i \in 1..Len(da.lat) |->
                          [j \in 1..Len(da.lon) |-> FMul(da.val[i][j], Zero)]]]

clip_yield_to_country(yield_data, geometry, fault) ==
    LET r == rio_clip(yield_data, geometry, fault)
    IN  IF r.exc = "NoDataInBounds"
        THEN [exc |-> "none", value |-> times_zero(yield_data)]
        ELSE r

\* ------------------------------------------------------------------ calculate_percentage_change

\* the difference is taken the wrong way round
calculate_percentage_change_swapped(total_yield_value, reference_yield_value) ==
    IF FGt(reference_yield_value, Zero)
    THEN FDiv(FMul(Num(100), FSub(reference_yield_value, total_yield_value)), reference_yield_value)
    ELSE NaN

calculate_percentage_change(total_yield_value, reference_yield_value) ==
    IF FGt(reference_yield_value, Zero)
    THEN FDiv(FMul(Num(100), FSub(total_yield_value, reference_yield_value)), reference_yield_value)
    ELSE NaN

\* ------------------------------------------------------------------ assign_crs

SeqMin(s) == CHOOSE x \in {s[i] : i \in 1..Len(s)} : \A i \in 1..Len(s) : x <= s[i]

SeqMax(s) == CHOOSE x \in {s[i] : i \in 1..Len(s)} : \A i \in 1..Len(s) : x >= s[i]

\* the rows of s (an axis, or the rows of values) at the positions keep holds
RECURSIVE SelectRows(_, _, _)
SelectRows(s, keep, i) ==
    IF i > Len(s) THEN <<>>
    ELSE (IF keep[i] THEN <<s[i]>> ELSE <<>>) \o SelectRows(s, keep, i + 1)

\* a test that lets the exact poles pass
InvalidLat_open(da) ==
    SeqMin(da.lat) < (0 - 90) * da.den \/ SeqMax(da.lat) > 90 * da.den

InvalidLat(da) ==
    SeqMin(da.lat) <= (0 - 90) * da.den \/ SeqMax(da.lat) >= 90 * da.den

\* data_array.where((lat > -90) & (lat < 90), drop=True)
drop_poles(da) ==
    LET keep == [i \in 1..Len(da.lat) |->
                    da.lat[i] > (0 - 90) * da.den /\ da.lat[i] < 90 * da.den]
    IN  [da EXCEPT !.lat = SelectRows(da.lat, keep, 1), !.val = SelectRows(da.val, keep, 1)]

\* [exc, value]: min() of an empty latitude axis raises ValueError
assign_crs(array, epsg_code) ==
    IF Len(array.lat) = 0 THEN [exc |-> "ValueError", value |-> array]
    ELSE LET da == IF InvalidLat(array) THEN drop_poles(array) ELSE array
         IN  IF Len(da.lat) = 0 \/ InvalidLat(da)
             THEN [exc |-> "ValueError", value |-> da]
             ELSE [exc |-> "none", value |-> [da EXCEPT !.crs = epsg_code]]

\* ------------------------------------------------------------------ aggregate_yields, aggregate_grass_yields

\* no fillna: the missing value stays
fillna_keep(x) == x

fillna0(x) == IF x.nan THEN Zero ELSE x

\* ds['yield'].isel(<component axis> = idx, time = year).fillna(0); idx counts from 1
isel_fillna(ds, index, time) ==
    [lat |-> ds.lat, lon |-> ds.lon, den |-> 1, crs |-> 0,
     val |-> Computed([i \in 1..Len(ds.lat) |->
                         Computed([j \in 1..Len(ds.lon) |->
                                     fillna0(ds.yield[index][time + 1][i][j])], Len(ds.lon))],
                      Len(ds.lat))]

add_cells(a, b) ==
    [a EXCEPT !.val = Computed([i \in 1..Len(a.lat) |->
                                  Computed([j \in 1..Len(a.lon) |->
                                              FAdd(a.val[i][j], b.val[i][j])], Len(a.lon))],
                               Len(a.lat))]

aggregate_yields(ds, rain_idx, irr_idx, time) ==
    add_cells(isel_fillna(ds, rain_idx, time), isel_fillna(ds, irr_idx, time))

RECURSIVE sum_grass(_, _, _)
sum_grass(ds, time, n) ==
    IF n = 1 THEN isel_fillna(ds, 1, time)
    ELSE add_cells(sum_grass(ds, time, n - 1), isel_fillna(ds, n, time))

aggregate_grass_yields(ds, time) == sum_grass(ds, time, Len(ds.names))

\* names_list.index(name), counted from 1; 0: not in the list (ValueError)
index_of(names_list, name) ==
    IF \E i \in 1..Len(names_list) : names_list[i] = name
    THEN CHOOSE i \in 1..Len(names_list) :
            names_list[i] = name /\ \A j \in 1..(i - 1) : names_list[j] # name
    ELSE 0

\* total_yield_year.rio.reproject(EPSG): the grid is tagged with the target
\* CRS; the projection itself is taken as a relabelling of the same cells
rio_reproject(da, epsg_code) == [da EXCEPT !.crs = epsg_code]

\* ------------------------------------------------------------------ tables (pandas)

\* lexicographic order of the strings the tables are sorted by
SortedNames == <<"AAA", "Alpha", "BBB", "BBX", "Beta", "Burma", "Myanmar">>

NameRank(s) == CHOOSE i \in 1..Len(SortedNames) : SortedNames[i] = s

\* a sequence holding the members of set S once each, ascending by key
\* (key is a function on S to tuples of two naturals, without ties)
SortBy(S, key) ==
    LET before(a, b) == key[a][1] < key[b][1] \/ (key[a][1] = key[b][1] /\ key[a][2] < key[b][2])
        rank(a) == Cardinality({b \in S : before(b, a)}) + 1
    IN  [p \in 1..Cardinality(S) |-> CHOOSE a \in S : rank(a) = p]

\* Series.mean() as NaN propagating (numpy mean)
mean_propagating(vals) ==
    IF Len(vals) = 0 THEN NaN ELSE FDiv(SumSeq(vals), Num(Len(vals)))

\* GroupBy.mean() / DataFrame mean: missing values are skipped, the mean of
\* no value is NaN
mean_skipna(vals) ==
    LET present == SelectRows(vals, [i \in 1..Len(vals) |-> ~vals[i].nan], 1)
    IN  IF Len(present) = 0 THEN NaN ELSE FDiv(SumSeq(present), Num(Len(present)))

\* ------------------------------------------------------------------ the mean in binary floating point

\* The floats of the rounding model are 0 and +-M * 2^e with
\* 2^(Precision-1) <= M < 2^Precision (float64 has 53 bits); every operation
\* returns the exact result rounded to the nearest float, ties to even.
RECURSIVE Pow2(_)
Pow2(k) == IF k = 0 THEN 1 ELSE 2 * Pow2(k - 1)

\* the exponent e of a/d (a, d > 0): 2^(Precision-1) <= (a/d) / 2^e < 2^Precision
RECURSIVE exponent_of(_, _)
exponent_of(a, d) ==
    IF a >= Pow2(Precision) * d THEN exponent_of(a, 2 * d) + 1
    ELSE IF a < Pow2(Precision - 1) * d THEN exponent_of(2 * a, d) - 1
    ELSE 0

\* 2^e
Scale(e) == IF e >= 0 THEN Rat(Pow2(e), 1) ELSE Rat(1, Pow2(0 - e))

round_nearest_even(x) ==
    IF x.nan \/ x.n = 0 THEN x
    ELSE LET e == exponent_of(Abs(x.n), x.d)
             a == IF e >= 0 THEN Abs(x.n) ELSE Abs(x.n) * Pow2(0 - e)
             d == IF e >= 0 THEN x.d * Pow2(e) ELSE x.d
             q == a \div d
             r == a % d
             M == IF 2 * r > d \/ (2 * r = d /\ q % 2 = 1) THEN q + 1 ELSE q
         IN  FMul(Num(IF x.n < 0 THEN 0 - M ELSE M), Scale(e))

fl_add(x, y) == round_nearest_even(FAdd(x, y))

fl_sub(x, y) == round_nearest_even(FSub(x, y))

fl_div(x, y) == round_nearest_even(FDiv(x, y))

\* the running sum of vals[1..n]: with Kahan compensation (pandas >= 1.2) or
\* plain (older pandas)
RECURSIVE running_sum(_, _, _)
running_sum(vals, n, compensated) ==
    IF n = 0 THEN [sumx |-> Zero, compensation |-> Zero]
    ELSE LET prev == running_sum(vals, n - 1, compensated)
             y == IF compensated THEN fl_sub(vals[n], prev.compensation) ELSE vals[n]
             t == fl_add(prev.sumx, y)
         IN  [sumx |-> t, compensation |-> fl_sub(fl_sub(t, prev.sumx), y)]

\* GroupBy.sum() of one group
group_sum(vals, compensated) ==
    LET present == SelectRows(vals, [i \in 1..Len(vals) |-> ~vals[i].nan], 1)
    IN  IF Len(present) = 0 THEN NaN
        ELSE running_sum(present, Len(present), compensated).sumx

\* GroupBy.mean() of one group in floating point: the sum of the values
\* present divided by their number (mean_skipna is this mean where no
\* operation rounds)
group_mean(vals, compensated) ==
    LET present == SelectRows(vals, [i \in 1..Len(vals) |-> ~vals[i].nan], 1)
    IN  IF Len(present) = 0 THEN NaN
        ELSE fl_div(running_sum(present, Len(present), compensated).sumx, Num(Len(present)))

\* ------------------------------------------------------------------ tables (pandas): grouping, merging

\* year_df.groupby(['country', 'iso'])['percentage_change'].mean().reset_index():
\* one row per (country, iso), ascending
groupby_mean(records) ==
    LET keys == {<<records[i].country, records[i].iso>> : i \in 1..Len(records)}
        order == SortBy(keys, [k \in keys |-> <<NameRank(k[1]), NameRank(k[2])>>])
        of(k) == SelectRows(records,
                    [i \in 1..Len(records) |-> <<records[i].country, records[i].iso>> = k], 1)
    IN  [p \in 1..Len(order) |->
            [country |-> order[p][1], iso |-> order[p][2],
             percentage_change |->
                mean_skipna([i \in 1..Len(of(order[p])) |-> of(order[p])[i].percentage_change])]]

\* pd.DataFrame.from_dict(percentage_changes, orient='index'): one row per
\* key of the dictionary, a column per field of any entry, NaN where an
\* entry lacks the field.  A table is [cols, rows]; cols holds the value
\* columns, and a row is [ISO3, Country, vals].
from_dict_columns(pc_dict) == UNION {DOMAIN pc_dict[c].vals : c \in DOMAIN pc_dict}

from_dict_sorted(pc_dict) ==
    LET cols == from_dict_columns(pc_dict)
        order == SortBy(DOMAIN pc_dict, [c \in DOMAIN pc_dict |-> <<NameRank(c), 0>>])
    IN  [cols |-> cols,
         rows |-> [p \in 1..Len(order) |->
                     [ISO3 |-> pc_dict[order[p]].ISO3, Country |-> order[p],
                      vals |-> [c \in cols |->
                                  IF c \in DOMAIN pc_dict[order[p]].vals
                                  THEN pc_dict[order[p]].vals[c] ELSE NaN]]]]

TableKeys(t) == {<<t.rows[i].Country, t.rows[i].ISO3>> : i \in 1..Len(t.rows)}

\* the values of column c in the rows of t with key k (NaN when t lacks c)
CellsOf(t, k, c) ==
    LET hit == SelectRows(t.rows,
                  [i \in 1..Len(t.rows) |-> <<t.rows[i].Country, t.rows[i].ISO3>> = k], 1)
    IN  [i \in 1..Len(hit) |-> IF c \in t.cols THEN hit[i].vals[c] ELSE NaN]

\* pd.merge(crop, grass, on=['ISO3 Country Code', 'Country'], how='outer')
\* .sort_values(by='Country'); the keys of each side are unique
merge_outer_sorted(a, b) ==
    LET keys == TableKeys(a) \cup TableKeys(b)
        order == SortBy(keys, [k \in keys |-> <<NameRank(k[1]), NameRank(k[2])>>])
        cols == a.cols \cup b.cols
        cell(k, c) == LET t == IF c \in a.cols THEN a ELSE b
                      IN  IF Len(CellsOf(t, k, c)) = 0 THEN NaN ELSE CellsOf(t, k, c)[1]
    IN  [cols |-> cols,
         rows |-> [p \in 1..Len(order) |->
                     [ISO3 |-> order[p][2], Country |-> order[p][1],
                      vals |-> [c \in cols |-> cell(order[p], c)]]]]

RECURSIVE ConcatCells(_, _, _, _)
ConcatCells(tables, k, c, n) ==
    IF n = 0 THEN <<>> ELSE ConcatCells(tables, k, c, n - 1) \o CellsOf(tables[n], k, c)

\* pd.concat(combined_results).groupby(['ISO3 Country Code', 'Country']).mean()
\* .reset_index(): rows ascending by (ISO3, Country)
concat_groupby_mean(tables) ==
    LET keys == UNION {TableKeys(tables[i]) : i \in 1..Len(tables)}
        order == SortBy(keys, [k \in keys |-> <<NameRank(k[2]), NameRank(k[1])>>])
        cols == UNION {tables[i].cols : i \in 1..Len(tables)}
    IN  [cols |-> cols,
         rows |-> [p \in 1..Len(order) |->
                     [ISO3 |-> order[p][2], Country |-> order[p][1],
                      vals |-> [c \in cols |->
                                  mean_skipna(ConcatCells(tables, order[p], c, Len(tables)))]]]]

\* ------------------------------------------------------------------ state

VARIABLES
    call,                   \* the function under call (specification SpecFn)
    ds_hist,                \* a dataset and its successive fix_longitude images
    data_array,             \* the DataArray argument
    factor,                 \* downscale_data's factor
    country_geometry,       \* clip_yield_to_country's geometry
    total_yield_value,      \* calculate_percentage_change's arguments
    reference_yield_value,
    result,                 \* [op, ...]: what the call returned
    \* configuration (config.yaml and the files it names)
    scenarios,              \* the scenario descriptors, in order
    control_crop_files,     \* the control datasets, one per realization
    control_grass_files,
    shapefile_path,         \* the shapefile gdf is read from
    crop_aggregation,       \* group name -> (rainfed, irrigated) component names
    \* main, process_scenario, process_yields
    pc,                     \* position in the nested loops
    si,                     \* main: position in scenarios of the scenario at hand
    idx,                    \* process_scenario: the pair at hand, from 1
    track,                  \* "crop" or "grass": which process_yields call runs
    gi,                     \* process_yields: the group at hand, from 1
    year,                   \* process_yields: the year index, from 0
    ci,                     \* process_yields: the control realization, from 1
    ki,                     \* process_yields: the row of gdf, from 1
    year_percentage_changes,
    percentage_changes,     \* country name -> [ISO3, vals]
    result_crop_df,
    combined_results,
    written,                \* the CSV files written, in order
    raised,                 \* the exception that ended main ("none": none)
    faulty                  \* the [group, ki, ci] visits whose clip raises in this environment

fnVars == <<call, ds_hist, data_array, factor, country_geometry,
            total_yield_value, reference_yield_value, result>>

cfgVars == <<scenarios, control_crop_files, control_grass_files, shapefile_path,
             crop_aggregation>>

loopVars == <<si, idx, track, gi, year, ci, ki>>

dataVars == <<year_percentage_changes, percentage_changes, result_crop_df,
              combined_results, written>>

runVars == <<pc, loopVars, dataVars, raised, faulty>>

vars == <<fnVars, cfgVars, runVars>>

\* ------------------------------------------------------------------ inputs of the functions

LonVals == {0 - 190, 0 - 180, 0 - 90, 0, 90, 180, 270, 360}

\* a dataset of one component and one year on two latitude rows: the cell of
\* row i and column j holds 10 i + j, so a column is known by its values
LonDataset(lon) ==
    [data_vars |-> {"yield"}, names |-> <<"c">>, lat |-> <<0 - 30, 30>>, lon |-> lon,
     yield |-> << << [i \in 1..2 |-> [j \in 1..Len(lon) |-> Num(10 * i + j)]] >> >>]

LonDatasets == {LonDataset(lon) : lon \in UNION {[1..n -> LonVals] : n \in 1..(MaxLon + 1)}}

LatAxes(n) == {RegularAxis(0 - 30, 30, n), RegularAxis(30, 0 - 30, n)}

LonAxes(n) == {RegularAxis(0 - 90, 90, n)}

\* the cell of row i and column j holds i j - 1, or is missing
DataArraysOf(nlat, nlon) ==
    {[lat |-> la, lon |-> lo, den |-> 1, crs |-> c,
      val |-> [i \in 1..nlat |-> [j \in 1..nlon |->
                 IF <<i, j>> \in missing THEN NaN ELSE Num(i * j - 1)]]] :
        la \in LatAxes(nlat), lo \in LonAxes(nlon), c \in {0, 4326},
        missing \in SUBSET ((1..nlat) \X (1..nlon))}

DataArrays == UNION {DataArraysOf(nlat, nlon) : nlat \in 1..MaxLat, nlon \in 1..MaxLon}

Geoms ==
    {[lat_lo |-> 0 - 45, lat_hi |-> 0 - 20, lon_lo |-> 0 - 130, lon_hi |-> 0 - 50],
     [lat_lo |-> 0 - 90, lat_hi |-> 90, lon_lo |-> 0 - 180, lon_hi |-> 180],
     [lat_lo |-> 80, lat_hi |-> 85, lon_lo |-> 0 - 10, lon_hi |-> 10],
     [lat_lo |-> 0 - 10, lat_hi |-> 10, lon_lo |-> 150, lon_hi |-> 170]}

\* grids with rows at, beyond and between the poles; the cell of row i and
\* column j holds 10 i + j, the first cell of the first row may be missing
PoleLatAxes ==
    {<<0 - 90, 0, 90>>, <<0 - 90, 90>>, <<0 - 30, 30>>, <<90, 30, 0 - 30>>,
     <<0 - 100, 0, 60>>, <<0>>, <<90>>, <<60, 100>>}

PoleArrays ==
    {[lat |-> la, lon |-> <<0, 90>>, den |-> 1, crs |-> 0,
      val |-> [i \in 1..Len(la) |-> [j \in 1..2 |->
                 IF miss /\ i = 1 /\ j = 1 THEN NaN ELSE Num(10 * i + j)]]] :
        la \in PoleLatAxes, miss \in BOOLEAN}

\* datasets of three components and two years on a 2 x 1 grid: the cell of
\* component c, time t, row i holds 100 c + 10 t + i, or is missing
AggDatasets ==
    {[data_vars |-> {"yield"}, names |-> <<"a", "b", "c">>, lat |-> <<0 - 30, 30>>,
      lon |-> <<0>>,
      yield |-> [c \in 1..3 |-> [t \in 1..2 |-> [i \in 1..2 |-> [j \in 1..1 |->
                   IF <<c, i>> \in missing THEN NaN ELSE Num(100 * c + 10 * t + i)]]]]] :
        missing \in SUBSET ((1..3) \X (1..2))}

\* the floats of the rounding model with exponents -2..2, both signs
MeanVals ==
    {FMul(Num(sgn * M), Scale(e)) :
        sgn \in {0 - 1, 1}, M \in Pow2(Precision - 1)..(Pow2(Precision) - 1), e \in (0 - 2)..2}

TotalVals == {Rat(n, d) : n \in (0 - MaxTotal)..MaxTotal, d \in {1, 100}}

NoDataArray == [lat |-> <<>>, lon |-> <<>>, den |-> 1, crs |-> 0, val |-> <<>>]

NoGeometry == [lat_lo |-> 0, lat_hi |-> 0, lon_lo |-> 0, lon_hi |-> 0]

NoTable == [cols |-> {}, rows |-> <<>>]

IdleRun ==
    /\ scenarios = <<>> /\ control_crop_files = <<>> /\ control_grass_files = <<>>
    /\ shapefile_path = "none" /\ crop_aggregation = <<>>
    /\ pc = "idle" /\ si = 0 /\ idx = 0 /\ track = "none" /\ gi = 0 /\ year = 0
    /\ ci = 0 /\ ki = 0
    /\ year_percentage_changes = <<>> /\ percentage_changes = <<>>
    /\ result_crop_df = NoTable /\ combined_results = <<>> /\ written = <<>>
    /\ raised = "none" /\ faulty = {}

InitFn ==
    /\ IdleRun
    /\ result = [op |-> "none"]
    /\ \/ /\ call = "fix_longitude"
          /\ ds_hist \in {<<ds>> : ds \in LonDatasets}
          /\ data_array = NoDataArray /\ factor = 0 /\ country_geometry = NoGeometry
          /\ total_yield_value = Zero /\ reference_yield_value = Zero
       \/ /\ call = "downscale_data"
          /\ data_array \in DataArrays
          /\ factor \in 2..MaxFactor
          /\ ds_hist = <<>> /\ country_geometry = NoGeometry
          /\ total_yield_value = Zero /\ reference_yield_value = Zero
       \/ /\ call = "clip_yield_to_country"
          /\ data_array \in {da \in DataArrays : ~Degenerate(da)}
          /\ country_geometry \in Geoms
          /\ ds_hist = <<>> /\ factor = 0
          /\ total_yield_value = Zero /\ reference_yield_value = Zero
       \/ /\ call = "assign_crs"
          /\ data_array \in PoleArrays
          /\ ds_hist = <<>> /\ factor = 0 /\ country_geometry = NoGeometry
          /\ total_yield_value = Zero /\ reference_yield_value = Zero
       \/ /\ call \in {"aggregate_yields", "aggregate_grass_yields"}
          /\ ds_hist \in {<<ds>> : ds \in AggDatasets}
          /\ data_array = NoDataArray /\ factor = 0 /\ country_geometry = NoGeometry
          /\ total_yield_value = Zero /\ reference_yield_value = Zero
       \/ /\ call = "group_mean"
          /\ ds_hist = <<>> /\ data_array = NoDataArray /\ factor = 0
          /\ country_geometry = NoGeometry
          /\ total_yield_value = Zero /\ reference_yield_value = Zero
       \/ /\ call = "calculate_percentage_change"
          /\ total_yield_value \in TotalVals
          /\ reference_yield_value \in TotalVals
          /\ ds_hist = <<>> /\ data_array = NoDataArray /\ factor = 0
          /\ country_geometry = NoGeometry

\* ds = fix_longitude(ds), again and again
CallFixLongitude ==
    /\ call = "fix_longitude"
    /\ Len(ds_hist) <= MaxCalls
    /\ ds_hist' = Append(ds_hist, fix_longitude(ds_hist[Len(ds_hist)]))
    /\ result' = [op |-> "fix_longitude"]
    /\ UNCHANGED <<call, data_array, factor, country_geometry,
                   total_yield_value, reference_yield_value, cfgVars, runVars>>

CallDownscaleData ==
    /\ call = "downscale_data"
    /\ result.op = "none"
    /\ result' = [op |-> "downscale_data", value |-> downscale_data(data_array, factor)]
    /\ UNCHANGED <<call, ds_hist, data_array, factor, country_geometry,
                   total_yield_value, reference_yield_value, cfgVars, runVars>>

CallClipYieldToCountry ==
    /\ call = "clip_yield_to_country"
    /\ result.op = "none"
    /\ \E fault \in BOOLEAN :
          LET r == clip_yield_to_country(data_array, country_geometry, fault)
          IN  result' = [op |-> "clip_yield_to_country", exc |-> r.exc, value |-> r.value]
    /\ UNCHANGED <<call, ds_hist, data_array, factor, country_geometry,
                   total_yield_value, reference_yield_value, cfgVars, runVars>>

CallCalculatePercentageChange ==
    /\ call = "calculate_percentage_change"
    /\ result.op = "none"
    /\ result' = [op |-> "calculate_percentage_change",
                  value |-> calculate_percentage_change(total_yield_value, reference_yield_value)]
    /\ UNCHANGED <<call, ds_hist, data_array, factor, country_geometry,
                   total_yield_value, reference_yield_value, cfgVars, runVars>>

CallAssignCrs ==
    /\ call = "assign_crs"
    /\ result.op = "none"
    /\ LET r == assign_crs(data_array, 4326)
       IN  result' = [op |-> "assign_crs", exc |-> r.exc, value |-> r.value]
    /\ UNCHANGED <<call, ds_hist, data_array, factor, country_geometry,
                   total_yield_value, reference_yield_value, cfgVars, runVars>>

CallAggregateYields ==
    /\ call = "aggregate_yields"
    /\ result.op = "none"
    /\ \E rain \in 1..3, irr \in 1..3, y \in 0..1 :
          result' = [op |-> "aggregate_yields", rain_idx |-> rain, irr_idx |-> irr, year |-> y,
                     value |-> aggregate_yields(ds_hist[1], rain, irr, y)]
    /\ UNCHANGED <<call, ds_hist, data_array, factor, country_geometry,
                   total_yield_value, reference_yield_value, cfgVars, runVars>>

CallAggregateGrassYields ==
    /\ call = "aggregate_grass_yields"
    /\ result.op = "none"
    /\ \E y \in 0..1 :
          result' = [op |-> "aggregate_grass_yields", year |-> y,
                     value |-> aggregate_grass_yields(ds_hist[1], y)]
    /\ UNCHANGED <<call, ds_hist, data_array, factor, country_geometry,
                   total_yield_value, reference_yield_value, cfgVars, runVars>>

\* the averaging of one (country, iso) group whose m records hold the same
\* percentage change v
CallGroupMean ==
    /\ call = "group_mean"
    /\ result.op = "none"
    /\ \E v \in MeanVals, m \in 1..MaxRealizations, compensated \in BOOLEAN :
          result' = [op |-> "group_mean", v |-> v, m |-> m,
                     value |-> group_mean([i \in 1..m |-> v], compensated)]
    /\ UNCHANGED <<call, ds_hist, data_array, factor, country_geometry,
                   total_yield_value, reference_yield_value, cfgVars, runVars>>

NextFn ==
    \/ CallGroupMean
    \/ CallAssignCrs
    \/ CallAggregateYields
    \/ CallAggregateGrassYields
    \/ CallFixLongitude
    \/ CallDownscaleData
    \/ CallClipYieldToCountry
    \/ CallCalculatePercentageChange

SpecFn == InitFn /\ [][NextFn]_vars

\* ------------------------------------------------------------------ claims on the functions

\* C1: calculate_percentage_change(s, c) is 100 (s - c) / c for every control
\* total c > 0 and NaN for every c <= 0; calculate_percentage_change(c, c) = 0
\* for c > 0.
C1_PercentageChange ==
    result.op = "calculate_percentage_change" =>
        LET s == total_yield_value
            c == reference_yield_value
            r == result.value
        IN  /\ c.n > 0 => /\ ~r.nan
                          /\ r.n * s.d * c.n = 100 * (s.n * c.d - c.n * s.d) * r.d
            /\ c.n <= 0 => r.nan
            /\ (c.n > 0 /\ s = c) => r = Zero

C1_Witness ==
    /\ result.op = "calculate_percentage_change"
    /\ reference_yield_value.n > 0
    /\ total_yield_value.n < 0
    /\ result.value = Rat(0 - 400, 1)

\* C7: clipping to a geometry that does not intersect the grid does not fail
\* and returns a field of the input's shape whose every cell is 0, also for an
\* input with NaN cells.
C7_NonIntersectingAllZero ==
    (result.op = "clip_yield_to_country" /\ ~Intersects(data_array, country_geometry)
        /\ result.exc # "Exception") =>
        /\ result.exc = "none"
        /\ Len(result.value.val) = Len(data_array.val)
        /\ \A i \in 1..Len(data_array.val) :
              /\ Len(result.value.val[i]) = Len(data_array.val[i])
              /\ \A j \in 1..Len(data_array.val[i]) : result.value.val[i][j] = Zero

C12_Kept(da) == {i \in 1..Len(da.lat) : da.lat[i] > 0 - 90 /\ da.lat[i] < 90}

\* C12: when assign_crs returns, every latitude of the result is strictly
\* between -90 and 90, the result's rows are exactly the input rows with
\* -90 < lat < 90, in their order, and their values are unchanged.
C12_AssignCrsKeepsInnerRows ==
    (result.op = "assign_crs" /\ result.exc = "none") =>
        LET out == result.value
            kept == C12_Kept(data_array)
        IN  /\ \A q \in 1..Len(out.lat) : out.lat[q] > 0 - 90 /\ out.lat[q] < 90
            /\ Len(out.lat) = Cardinality(kept)
            /\ Len(out.val) = Cardinality(kept)
            /\ \A i \in kept :
                  LET q == Cardinality({k \in kept : k <= i})
                  IN  out.lat[q] = data_array.lat[i] /\ out.val[q] = data_array.val[i]
            /\ out.lon = data_array.lon
            /\ out.crs = 4326

C12_Witness ==
    /\ result.op = "assign_crs"
    /\ result.exc = "none"
    /\ data_array.lat = <<90, 30, 0 - 30>>
    /\ result.value.lat = <<30, 0 - 30>>
    /\ result.value.val[1] = <<Num(21), Num(22)>>

\* a missing value counted as 0
C14_Filled(ds, c, y, i, j) ==
    LET v == ds.yield[c][y + 1][i][j] IN IF v.nan THEN Zero ELSE v

\* C14: every cell of aggregate_yields is the rainfed plus the irrigated value
\* of the cell at the year, and every cell of aggregate_grass_yields the sum of
\* the cell over all entries of the grass axis, a missing value counted as 0;
\* no cell of either result is missing.
C14_AggregatesCountMissingAsZero ==
    /\ result.op = "aggregate_yields" =>
          \A i \in 1..2 : \A j \in 1..1 :
             /\ ~result.value.val[i][j].nan
             /\ result.value.val[i][j] =
                   FAdd(C14_Filled(ds_hist[1], result.rain_idx, result.year, i, j),
                        C14_Filled(ds_hist[1], result.irr_idx, result.year, i, j))
    /\ result.op = "aggregate_grass_yields" =>
          \A i \in 1..2 : \A j \in 1..1 :
             /\ ~result.value.val[i][j].nan
             /\ result.value.val[i][j] =
                   FAdd(FAdd(C14_Filled(ds_hist[1], 1, result.year, i, j),
                             C14_Filled(ds_hist[1], 2, result.year, i, j)),
                        C14_Filled(ds_hist[1], 3, result.year, i, j))

\* rainfed missing in row 1 and irrigated present; a grass sum over three
\* entries of which one is missing
C14_Witness ==
    \/ /\ result.op = "aggregate_yields"
       /\ result.rain_idx = 1 /\ result.irr_idx = 3 /\ result.year = 1
       /\ ds_hist[1].yield[1][2][1][1].nan
       /\ ~ds_hist[1].yield[3][2][1][1].nan
       /\ result.value.val[1][1] = Num(321)
    \/ /\ result.op = "aggregate_grass_yields"
       /\ result.year = 0
       /\ ds_hist[1].yield[2][1][2][1].nan
       /\ result.value.val[2][1] = Num(404)

\* one unit in the last place of the float v # 0
ulp(v) == Scale(exponent_of(Abs(v.n), v.d))

FirstScenario == 5

\* downscale_data(data_array, factor=10)
DefaultFactor == 10

\* config['EPSG']
EPSG == 6933

\* config['years']
years == MaxYears

West == [lat_lo |-> 0 - 50, lat_hi |-> 50, lon_lo |-> 0 - 130, lon_hi |-> 0 - 50]

East == [lat_lo |-> 0 - 50, lat_hi |-> 50, lon_lo |-> 50, lon_hi |-> 130]

\* gpd.read_file(shapefile_path): the shapefile's rows.  "countries" has two
\* countries; "renamed" has two polygons whose names country_mapping makes one.
read_file(path) ==
    IF path = "renamed"
    THEN <<[COUNTRY |-> "Burma", ISO |-> "BBB", geometry |-> East],
           [COUNTRY |-> "Myanmar", ISO |-> "BBX", geometry |-> West]>>
    ELSE <<[COUNTRY |-> "Alpha", ISO |-> "AAA", geometry |-> West],
           [COUNTRY |-> "Burma", ISO |-> "BBB", geometry |-> East]>>

gdf == read_file(shapefile_path)

\* country_mapping.get(country_name, country_name)
country_mapping(name) == IF name = "Burma" THEN "Myanmar" ELSE name

\* A file path is [kind, i, has_yield]; xr.open_dataset reads its dataset.
\* The grids have latitudes -30, 30 and longitudes 90 (east), 270 (west); a
\* grid is given by the values of its east and west columns, the same in both
\* rows and in every year.
Columns(east, west) == [t \in 1..MaxYears |-> <<<<east, west>>, <<east, west>>>>]

File(has_yield, names, components) ==
    [data_vars |-> IF has_yield THEN {"yield"} ELSE {},
     names |-> names, lat |-> <<0 - 30, 30>>, lon |-> <<90, 270>>,
     yield |-> IF has_yield THEN components ELSE <<>>]

CropNames == <<"rain_corn", "irr_corn", "rain_wheat", "irr_wheat">>

GrassNames == <<"c3", "c4">>

\* crop file i: its rainfed corn is i in the west column
CropFile(i, has_yield) ==
    File(has_yield, CropNames,
         <<Columns(Num(2), Num(i)), Columns(Num(1), NaN),
           Columns(Num(1), Num(2)), Columns(Num(1), Num(1))>>)

\* grass file i: its c3 is i in the west column
GrassFile(i, has_yield) ==
    File(has_yield, GrassNames, <<Columns(Num(1), Num(i)), Columns(Num(2), NaN)>>)

\* the names of a control file that lists its wheat components first
ReorderedCropNames == <<"rain_wheat", "irr_wheat", "rain_corn", "irr_corn">>

\* corn, realization 1: 4 east and 2 west; realization 2: nothing east, 4 west;
\* wheat, both realizations: 4 east and 6 west; file 3 holds the components
\* of realization 1 in the order of ReorderedCropNames
ControlCropFile(i, has_yield) ==
    IF i = 1
    THEN File(has_yield, CropNames,
              <<Columns(Num(3), Num(1)), Columns(Num(1), Num(1)),
                Columns(Num(2), Num(3)), Columns(Num(2), Num(3))>>)
    ELSE IF i = 3
    THEN File(has_yield, ReorderedCropNames,
              <<Columns(Num(2), Num(3)), Columns(Num(2), Num(3)),
                Columns(Num(3), Num(1)), Columns(Num(1), Num(1))>>)
    ELSE File(has_yield, CropNames,
              <<Columns(Zero, Num(3)), Columns(NaN, Num(1)),
                Columns(Num(2), Num(3)), Columns(Num(2), Num(3))>>)

\* both realizations: nothing east, 2 west
ControlGrassFile(i, has_yield) ==
    File(has_yield, GrassNames, <<Columns(Zero, Num(1)), Columns(NaN, Num(1))>>)

\* the files that may lack the 'yield' variable
FileIds ==
    {[kind |-> k, i |-> i] : k \in {"crop", "grass"}, i \in 1..MaxPairs}
        \cup {[kind |-> k, i |-> i] : k \in {"crop_control", "grass_control"}, i \in 1..2}

Corn == [name |-> "Corn", sub |-> <<"rain_corn", "irr_corn">>]

Wheat == [name |-> "Wheat", sub |-> <<"rain_wheat", "irr_wheat">>]

\* a group whose irrigated component is not in the crop files
CornMaize == [name |-> "Corn", sub |-> <<"rain_corn", "irr_maize">>]

\* config['crop_aggregation'], in the order of the mapping
Aggregations == {<<Wheat, Corn>>, <<Corn>>, <<CornMaize>>, <<CornMaize, Wheat>>, <<Wheat, CornMaize>>}

Path(missing, kind, i) ==
    [kind |-> kind, i |-> i, has_yield |-> [kind |-> kind, i |-> i] \notin missing]

\* xr.open_dataset(fp)
open_dataset(fp) ==
    CASE fp.kind = "crop" -> CropFile(fp.i, fp.has_yield)
      [] fp.kind = "grass" -> GrassFile(fp.i, fp.has_yield)
      [] fp.kind = "crop_control" -> ControlCropFile(fp.i, fp.has_yield)
      [] fp.kind = "grass_control" -> ControlGrassFile(fp.i, fp.has_yield)

GroupNames == {"Wheat", "Corn", "grasses"}

\* The environments: no visit raises; the first country raises against the
\* first control realization; the second country raises always; every visit
\* raises; every visit of group Wheat raises; the first country raises in the
\* grass pass.
FaultPlans ==
    {{},
     {[group |-> g, ki |-> 1, ci |-> 1] : g \in GroupNames},
     {[group |-> g, ki |-> 2, ci |-> c] : g \in GroupNames, c \in 1..2},
     {[group |-> g, ki |-> k, ci |-> c] : g \in GroupNames, k \in 1..2, c \in 1..2},
     {[group |-> "Wheat", ki |-> k, ci |-> c] : k \in 1..2, c \in 1..2},
     {[group |-> "grasses", ki |-> 1, ci |-> c] : c \in 1..2}}

\* The configurations and environments of a run: the nominal one (every file
\* with 'yield', groups Wheat and Corn, shapefile "countries", no failure) and
\* those that depart from it in one respect; shapefile "renamed" is run
\* without failure and with the first polygon failing in the grass pass;
\* crop_controls names the control crop files of the configuration, <<1, 3>>
\* having a second file whose components are listed in another order.
Nominal ==
    [missing |-> {}, crop_aggregation |-> <<Wheat, Corn>>, faulty |-> {},
     shapefile_path |-> "countries", crop_controls |-> <<1, 2>>]

Runs ==
    {[Nominal EXCEPT !.missing = {f}] : f \in FileIds}
        \cup {[Nominal EXCEPT !.crop_aggregation = a] : a \in Aggregations}
        \cup {[Nominal EXCEPT !.faulty = p] : p \in FaultPlans}
        \cup {[Nominal EXCEPT !.shapefile_path = "renamed", !.faulty = p] :
                 p \in {{}, {[group |-> "grasses", ki |-> 1, ci |-> c] : c \in 1..2}}}
        \cup {[Nominal EXCEPT !.crop_controls = <<1, 3>>]}

Init ==
    /\ call = "none" /\ ds_hist = <<>> /\ data_array = NoDataArray /\ factor = 0
    /\ country_geometry = NoGeometry
    /\ total_yield_value = Zero /\ reference_yield_value = Zero
    /\ result = [op |-> "none"]
    /\ \E n \in 0..MaxScenarios, ncrop \in 1..MaxPairs, ngrass \in 1..MaxPairs, run \in Runs :
          /\ scenarios =
                [s \in 1..n |->
                    [name |-> s,
                     crop_files |-> [i \in 1..ncrop |-> Path(run.missing, "crop", i)],
                     grass_files |-> [i \in 1..ngrass |-> Path(run.missing, "grass", i)]]]
          /\ control_crop_files =
                [i \in 1..2 |-> Path(run.missing, "crop_control", run.crop_controls[i])]
          /\ control_grass_files = [i \in 1..2 |-> Path(run.missing, "grass_control", i)]
          /\ shapefile_path = run.shapefile_path
          /\ crop_aggregation = run.crop_aggregation
          /\ faulty = run.faulty
    /\ pc = "main" /\ si = FirstScenario + 1
    /\ idx = 0 /\ track = "none" /\ gi = 0 /\ year = 0 /\ ci = 0 /\ ki = 0
    /\ year_percentage_changes = <<>> /\ percentage_changes = <<>>
    /\ result_crop_df = NoTable /\ combined_results = <<>> /\ written = <<>>
    /\ raised = "none"

\* ------------------------------------------------------------------ process_yields

\* the datasets of the process_yields call at hand, longitudes fixed
control_datasets ==
    [i \in 1..Len(control_crop_files) |-> fix_longitude(open_dataset(control_crop_files[i]))]

grass_control_datasets ==
    [i \in 1..Len(control_grass_files) |-> fix_longitude(open_dataset(control_grass_files[i]))]

ds_crop == fix_longitude(open_dataset(scenarios[si].crop_files[idx]))

ds_grass == fix_longitude(open_dataset(scenarios[si].grass_files[idx]))

ds == IF track = "crop" THEN ds_crop ELSE ds_grass

\* every grass pass reads the contents of the first grass file
ds_path_first_grass ==
    IF track = "crop" THEN scenarios[si].crop_files[idx]
    ELSE [scenarios[si].grass_files[idx] EXCEPT !.i = 1]

\* the files ds and control_datasets were opened from
ds_path ==
    IF track = "crop" THEN scenarios[si].crop_files[idx] ELSE scenarios[si].grass_files[idx]

control_paths == IF track = "crop" THEN control_crop_files ELSE control_grass_files

controls == IF track = "crop" THEN control_datasets ELSE grass_control_datasets

names_list == ds.names

\* if aggregation_info: groups = aggregation_info.items() else [('grasses', None)]
groups ==
    IF track = "crop" /\ Len(crop_aggregation) > 0 THEN crop_aggregation
    ELSE <<[name |-> "grasses", sub |-> <<>>]>>

sub_components == groups[gi].sub

rain_idx == index_of(names_list, sub_components[1])

irr_idx == index_of(names_list, sub_components[2])

\* rain_idx, irr_idx of the group at hand (none: grasses), counted from 1
indices == IF sub_components = <<>> THEN <<>> ELSE <<rain_idx, irr_idx>>

\* the aggregated yield of dataset d for the component positions pos (none:
\* grasses) and year y
aggregated(d, pos, y) ==
    IF pos # <<>>
    THEN aggregate_yields(d, pos[1], pos[2], y)
    ELSE aggregate_grass_yields(d, y)

\* assign_crs, downscale_data, rio.reproject: [exc, value]
prepared(d, pos, y) ==
    LET a == assign_crs(aggregated(d, pos, y), 4326)
    IN  IF a.exc # "none" THEN a
        ELSE [exc |-> "none",
              value |-> rio_reproject(downscale_data(a.value, DefaultFactor), EPSG)]

\* The prepared grid and the country totals depend on the file, the
\* component positions, the year and the polygon only; they are computed
\* once per combination and looked up by the loops.
FilePaths ==
    {[kind |-> k, i |-> i, has_yield |-> TRUE] :
        k \in {"crop", "grass", "crop_control", "grass_control"}, i \in 1..(MaxPairs + 2)}

ComponentPairs == {<<>>} \cup {a[g].sub : g \in 1..2, a \in {b \in Aggregations : Len(b) = 2}}
                         \cup {a[1].sub : a \in Aggregations}

\* the positions that names_list.index gives for the component pairs of the
\* configurations (0: the name is not in the list)
IndexPairs ==
    {<<>>} \cup {<<index_of(CropNames, sub[1]), index_of(CropNames, sub[2])>> :
                    sub \in ComponentPairs \ {<<>>}}

\* every position is one of a name found and of a component the file has
\* (isel beyond the axis raises IndexError)
ComponentsFound(fp, pos) ==
    \A n \in 1..Len(pos) : pos[n] >= 1 /\ pos[n] <= Len(open_dataset(fp).names)

PreparedGrids ==
    [fp \in FilePaths, pos \in IndexPairs, y \in 0..(MaxYears - 1) |->
        IF ComponentsFound(fp, pos)
        THEN prepared(fix_longitude(open_dataset(fp)), pos, y)
        ELSE [exc |-> "IndexError", value |-> NoDataArray]]

Geometries == {West, East}

\* clip_yield_to_country(grid, geometry).sum(skipna=True).item()
CountryTotals ==
    [fp \in FilePaths, pos \in IndexPairs, y \in 0..(MaxYears - 1), g \in Geometries |->
        IF PreparedGrids[fp, pos, y].exc = "none"
        THEN sum_skipna(clip_yield_to_country(PreparedGrids[fp, pos, y].value, g, FALSE).value)
        ELSE NaN]

\* the prepared grid of file fp for the group and year at hand: [exc, value]
prepared_grid(fp) == PreparedGrids[fp, indices, year]

country_total(fp, geometry) == CountryTotals[fp, indices, year, geometry]

\* the name as declared, in its own case
str_keep(name) == name

\* str.lower() on the group names of the configurations
str_lower(name) ==
    CASE name = "Corn" -> "corn"
      [] name = "Wheat" -> "wheat"
      [] OTHER -> name

group_col_name == IF groups[gi].name = "Wheat" THEN "spring_wheat" ELSE str_lower(groups[gi].name)

\* f'{group_col_name}_year{year + 1}'
column == [group |-> group_col_name, year |-> year + 1]

\* percentage_changes after the rows 1..n of average_changes are stored
RECURSIVE store_rows(_, _, _, _)
store_rows(pc_dict, rows, n, col) ==
    IF n = 0 THEN pc_dict
    ELSE LET d == store_rows(pc_dict, rows, n - 1, col)
             name == rows[n].country
             entry == IF name \in DOMAIN d THEN d[name]
                      ELSE [ISO3 |-> rows[n].iso, vals |-> <<>>]
         IN  (name :> [entry EXCEPT !.vals = (col :> rows[n].percentage_change) @@ entry.vals]) @@ d

\* for year in range(years): names_list.index and the preparation of
\* total_yield_year; ValueError when a component name is not in names_list
YearBegin ==
    /\ pc = "year"
    /\ gi <= Len(groups)
    /\ LET notfound == sub_components # <<>> /\ (rain_idx = 0 \/ irr_idx = 0)
           failed == notfound \/ prepared_grid(ds_path).exc # "none"
       IN  /\ pc' = IF failed THEN "aborted" ELSE "ctrl"
           /\ raised' = IF notfound THEN "ValueError"
                        ELSE IF failed THEN prepared_grid(ds_path).exc ELSE raised
    /\ year_percentage_changes' = <<>>
    /\ ci' = 1
    /\ ki' = 0
    /\ UNCHANGED <<fnVars, cfgVars, si, idx, track, gi, year,
                   percentage_changes, result_crop_df, combined_results, written, faulty>>

\* for ctrl_ds in control_datasets: the preparation of reference_yield_year
ControlBegin ==
    /\ pc = "ctrl"
    /\ ci <= Len(controls)
    /\ LET failed == prepared_grid(control_paths[ci]).exc # "none"
       IN  /\ pc' = IF failed THEN "aborted" ELSE "country"
           /\ raised' = IF failed THEN prepared_grid(control_paths[ci]).exc ELSE raised
    /\ ki' = 1
    /\ UNCHANGED <<fnVars, cfgVars, si, idx, track, gi, year, ci, dataVars, faulty>>

\* the position two countries on: the next country is passed over
AfterCountrySkipsNext ==
    /\ ki' = ki + 2
    /\ pc' = "country"
    /\ UNCHANGED <<si, idx, track, gi, year, ci>>

\* the position after the country at hand
AfterCountry ==
    /\ ki' = ki + 1
    /\ pc' = "country"
    /\ UNCHANGED <<si, idx, track, gi, year, ci>>

\* the visit at hand, as the environment knows it
visit == [group |-> groups[gi].name, ki |-> ki, ci |-> ci]

\* for idx, country in gdf.iterrows(): the try block succeeds
VisitCountry ==
    /\ pc = "country"
    /\ ki <= Len(gdf)
    /\ visit \notin faulty
    /\ LET country_name == country_mapping(gdf[ki].COUNTRY)
           total == country_total(ds_path, gdf[ki].geometry)
           reference == country_total(control_paths[ci], gdf[ki].geometry)
           percentage_change == calculate_percentage_change(total, reference)
       IN  year_percentage_changes' =
               Append(year_percentage_changes,
                      [country |-> country_name, iso |-> gdf[ki].ISO,
                       percentage_change |-> percentage_change])
    /\ AfterCountry
    /\ UNCHANGED <<fnVars, cfgVars, percentage_changes, result_crop_df, combined_results,
                   written, raised, faulty>>

\* the try block raises (in either clip): logged, nothing appended
VisitCountryFails ==
    /\ pc = "country"
    /\ ki <= Len(gdf)
    /\ visit \in faulty
    /\ \E first \in BOOLEAN :
          \/ clip_yield_to_country(prepared_grid(ds_path).value,
                                   gdf[ki].geometry, first).exc # "none"
          \/ clip_yield_to_country(prepared_grid(control_paths[ci]).value,
                                   gdf[ki].geometry, ~first).exc # "none"
    /\ AfterCountry
    /\ UNCHANGED <<fnVars, cfgVars, dataVars, raised, faulty>>

\* the country loop is over: the next control realization
ControlEnd ==
    /\ pc = "country"
    /\ ki > Len(gdf)
    /\ ci' = ci + 1
    /\ pc' = "ctrl"
    /\ UNCHANGED <<fnVars, cfgVars, si, idx, track, gi, year, ki, dataVars,
                   raised, faulty>>

\* the control loop is over: average, store, and the next year or group
Average ==
    /\ pc = "ctrl"
    /\ ci > Len(controls)
    /\ percentage_changes' =
          IF Len(year_percentage_changes) > 0
          THEN LET average_changes == groupby_mean(year_percentage_changes)
               IN  store_rows(percentage_changes, average_changes, Len(average_changes), column)
          ELSE percentage_changes
    /\ IF year + 1 < years
       THEN year' = year + 1 /\ gi' = gi
       ELSE year' = 0 /\ gi' = gi + 1
    /\ pc' = "year"
    /\ UNCHANGED <<fnVars, cfgVars, si, idx, track, ci, ki,
                   year_percentage_changes, result_crop_df, combined_results, written,
                   raised, faulty>>

\* ------------------------------------------------------------------ process_scenario

has_yield(d) == "yield" \in d.data_vars

crop_yield_present ==
    has_yield(ds_crop) /\ \A i \in 1..Len(control_datasets) : has_yield(control_datasets[i])

grass_yield_present ==
    has_yield(ds_grass) /\ \A i \in 1..Len(grass_control_datasets) : has_yield(grass_control_datasets[i])

Min(a, b) == IF a < b THEN a ELSE b

\* zip(crop_file_paths, grass_file_paths)
NumPairs == Min(Len(scenarios[si].crop_files), Len(scenarios[si].grass_files))

BeginYields(t) ==
    /\ track' = t
    /\ gi' = 1
    /\ year' = 0
    /\ ci' = 0
    /\ ki' = 0
    /\ year_percentage_changes' = <<>>
    /\ percentage_changes' = <<>>
    /\ pc' = "year"

\* the pair's crop file has 'yield', and so has every control: process_yields
PairBegin ==
    /\ pc = "pairs"
    /\ idx <= NumPairs
    /\ crop_yield_present
    /\ BeginYields("crop")
    /\ UNCHANGED <<fnVars, cfgVars, si, idx, result_crop_df, combined_results, written,
                   raised, faulty>>

\* no 'yield' on the crop side: warning, continue
PairSkipCrop ==
    /\ pc = "pairs"
    /\ idx <= NumPairs
    /\ ~crop_yield_present
    /\ idx' = idx + 1
    /\ UNCHANGED <<fnVars, cfgVars, pc, si, track, gi, year, ci, ki, dataVars,
                   raised, faulty>>

\* process_yields is through its groups with nothing stored:
\* sort_values(by='Country') on a frame without columns raises KeyError
YieldsRaiseKeyError ==
    /\ pc = "year"
    /\ gi > Len(groups)
    /\ DOMAIN percentage_changes = {}
    /\ raised' = "KeyError"
    /\ pc' = "aborted"
    /\ UNCHANGED <<fnVars, cfgVars, loopVars, dataVars, faulty>>

\* the crop call returns its table; the grass side has 'yield': process_yields
CropReturn ==
    /\ pc = "year"
    /\ gi > Len(groups)
    /\ track = "crop"
    /\ DOMAIN percentage_changes # {}
    /\ grass_yield_present
    /\ result_crop_df' = from_dict_sorted(percentage_changes)
    /\ BeginYields("grass")
    /\ UNCHANGED <<fnVars, cfgVars, si, idx, combined_results, written, raised, faulty>>

\* a variant that writes the crop table on its own when the grass side is skipped
CropReturnPersistCrop ==
    /\ pc = "year"
    /\ gi > Len(groups)
    /\ track = "crop"
    /\ DOMAIN percentage_changes # {}
    /\ ~grass_yield_present
    /\ result_crop_df' = from_dict_sorted(percentage_changes)
    /\ written' = Append(written, [scenario |-> scenarios[si].name, kind |-> "pair",
                                   idx |-> idx, table |-> from_dict_sorted(percentage_changes)])
    /\ idx' = idx + 1
    /\ pc' = "pairs"
    /\ UNCHANGED <<fnVars, cfgVars, si, track, gi, year, ci, ki,
                   year_percentage_changes, percentage_changes, combined_results,
                   raised, faulty>>

\* the crop call returns its table; no 'yield' on the grass side: warning, continue
CropReturnSkipGrass ==
    /\ pc = "year"
    /\ gi > Len(groups)
    /\ track = "crop"
    /\ DOMAIN percentage_changes # {}
    /\ ~grass_yield_present
    /\ result_crop_df' = from_dict_sorted(percentage_changes)
    /\ idx' = idx + 1
    /\ pc' = "pairs"
    /\ UNCHANGED <<fnVars, cfgVars, si, track, gi, year, ci, ki,
                   year_percentage_changes, percentage_changes, combined_results, written,
                   raised, faulty>>

\* the grass call returns its table: merge, sort, write the pair's CSV
GrassReturn ==
    /\ pc = "year"
    /\ gi > Len(groups)
    /\ track = "grass"
    /\ DOMAIN percentage_changes # {}
    /\ LET final_df == merge_outer_sorted(result_crop_df, from_dict_sorted(percentage_changes))
       IN  /\ written' = Append(written, [scenario |-> scenarios[si].name, kind |-> "pair",
                                          idx |-> idx, table |-> final_df])
           /\ combined_results' = Append(combined_results, final_df)
    /\ idx' = idx + 1
    /\ pc' = "pairs"
    /\ UNCHANGED <<fnVars, cfgVars, si, track, gi, year, ci, ki,
                   year_percentage_changes, percentage_changes, result_crop_df, raised,
                   faulty>>

\* a weaker reading of the condition: any combined table at all
more_than_one_nonempty(results) == Len(results) > 0

\* if len(combined_results) > 1
more_than_one(results) == Len(results) > 1

\* the pairs are through and more than one was combined: the aggregated CSV
ScenarioEndAggregated ==
    /\ pc = "pairs"
    /\ idx > NumPairs
    /\ more_than_one(combined_results)
    /\ written' = Append(written, [scenario |-> scenarios[si].name, kind |-> "aggregated",
                                   idx |-> 0, table |-> concat_groupby_mean(combined_results)])
    /\ si' = si + 1
    /\ pc' = "main"
    /\ UNCHANGED <<fnVars, cfgVars, idx, track, gi, year, ci, ki,
                   year_percentage_changes, percentage_changes, result_crop_df,
                   combined_results, raised, faulty>>

\* the pairs are through and at most one was combined
ScenarioEnd ==
    /\ pc = "pairs"
    /\ idx > NumPairs
    /\ ~more_than_one(combined_results)
    /\ si' = si + 1
    /\ pc' = "main"
    /\ UNCHANGED <<fnVars, cfgVars, idx, track, gi, year, ci, ki, dataVars,
                   raised, faulty>>

\* ------------------------------------------------------------------ main

\* for scenario in scenarios[5:]: process_scenario(...)
MainNextScenario ==
    /\ pc = "main"
    /\ si <= Len(scenarios)
    /\ idx' = 1
    /\ combined_results' = <<>>
    /\ pc' = "pairs"
    /\ UNCHANGED <<fnVars, cfgVars, si, track, gi, year, ci, ki,
                   year_percentage_changes, percentage_changes, result_crop_df, written,
                   raised, faulty>>

MainReturn ==
    /\ pc = "main"
    /\ si > Len(scenarios)
    /\ pc' = "done"
    /\ UNCHANGED <<fnVars, cfgVars, loopVars, dataVars, raised, faulty>>

Next ==
    \/ MainNextScenario
    \/ MainReturn
    \/ PairBegin
    \/ PairSkipCrop
    \/ YearBegin
    \/ ControlBegin
    \/ VisitCountry
    \/ VisitCountryFails
    \/ ControlEnd
    \/ Average
    \/ YieldsRaiseKeyError
    \/ CropReturn
    \/ CropReturnSkipGrass
    \/ GrassReturn
    \/ ScenarioEndAggregated
    \/ ScenarioEnd

Spec == Init /\ [][Next]_vars

\* ------------------------------------------------------------------ averaging

\* the non-NaN percentage changes of the records 1..n of country name: their
\* [sum, count]
RECURSIVE PresentChanges(_, _, _, _)
PresentChanges(records, name, iso, n) ==
    IF n = 0 THEN [sum |-> Zero, count |-> 0]
    ELSE LET rest == PresentChanges(records, name, iso, n - 1)
             r == records[n]
         IN  IF r.country = name /\ r.iso = iso /\ ~r.percentage_change.nan
             THEN [sum |-> FAdd(rest.sum, r.percentage_change), count |-> rest.count + 1]
             ELSE rest

\* the ISO3 code of the last (country, iso) group of a name: its row of
\* average_changes is the one stored last under the name
LastIso(records, name) ==
    LET isos == {records[i].iso : i \in {j \in 1..Len(records) : records[j].country = name}}
    IN  CHOOSE a \in isos : \A b \in isos : NameRank(b) <= NameRank(a)

AveragingStep == pc = "ctrl" /\ ci > Len(controls)

\* C2 (as the code has it): the value stored for a country's {group}_year{n}
\* field is the mean of the percentage changes that are not NaN among the
\* records of the country's (country, ISO3) group (the last one, when several
\* ISO3 codes share the name); it is NaN only when every one of them is NaN.
C2_MeanSkipsNaN ==
    [][AveragingStep =>
          \A i \in 1..Len(year_percentage_changes) :
             LET name == year_percentage_changes[i].country
                 present == PresentChanges(year_percentage_changes, name,
                                           LastIso(year_percentage_changes, name),
                                           Len(year_percentage_changes))
                 stored == percentage_changes'[name].vals[column]
             IN  IF present.count = 0 THEN stored = NaN
                 ELSE ~stored.nan /\ FMul(stored, Num(present.count)) = present.sum]_vars

\* a country averaged from one NaN and one non-NaN realization holds a number
C2_Witness ==
    /\ pc = "year"
    /\ gi > 1 \/ year > 0
    /\ \E i, j \in 1..Len(year_percentage_changes) :
          /\ year_percentage_changes[i].country = year_percentage_changes[j].country
          /\ year_percentage_changes[i].iso = year_percentage_changes[j].iso
          /\ year_percentage_changes[i].percentage_change.nan
          /\ ~year_percentage_changes[j].percentage_change.nan
          /\ year_percentage_changes[i].country \in DOMAIN percentage_changes
          /\ \E c \in DOMAIN percentage_changes[year_percentage_changes[i].country].vals :
                ~percentage_changes[year_percentage_changes[i].country].vals[c].nan

\* C2 as stated: a NaN from any one realization makes the stored mean NaN
C2_NaNPropagates ==
    [][AveragingStep =>
          \A i \in 1..Len(year_percentage_changes) :
             year_percentage_changes[i].percentage_change.nan =>
                percentage_changes'[year_percentage_changes[i].country].vals[column].nan]_vars

\* ------------------------------------------------------------------ failures

\* C3 as stated: whichever visits raise, every one of them included,
\* process_yields returns its table and no exception leaves it.
C3_NoExceptionEscapes == raised # "KeyError"

\* ------------------------------------------------------------------ pairs

\* zip(crop_file_paths, grass_file_paths) of scenario s
PairsOf(s) == Min(Len(scenarios[s].crop_files), Len(scenarios[s].grass_files))

CropSideHasYield(s, i) ==
    /\ scenarios[s].crop_files[i].has_yield
    /\ \A c \in 1..Len(control_crop_files) : control_crop_files[c].has_yield

GrassSideHasYield(s, i) ==
    /\ scenarios[s].grass_files[i].has_yield
    /\ \A c \in 1..Len(control_grass_files) : control_grass_files[c].has_yield

\* the CSVs of kind k written for scenario s
WrittenFor(s, k) ==
    {n \in 1..Len(written) : written[n].scenario = scenarios[s].name /\ written[n].kind = k}

PairWritten(s, i) == \E n \in WrittenFor(s, "pair") : written[n].idx = i

\* C4 (as the code has it): a pair with 'yield' missing on either side is
\* skipped as a whole, nothing is persisted for it (a crop table computed
\* before the grass side is found lacking is dropped), and the run goes on:
\* at its end every pair with 'yield' on both sides has its CSV.
C4_SkippedPairPersistsNothing ==
    /\ \A n \in 1..Len(written) :
          written[n].kind = "pair" =>
             /\ CropSideHasYield(written[n].scenario, written[n].idx)
             /\ GrassSideHasYield(written[n].scenario, written[n].idx)
    /\ pc = "done" =>
          \A s \in (FirstScenario + 1)..Len(scenarios) : \A i \in 1..PairsOf(s) :
             CropSideHasYield(s, i) /\ GrassSideHasYield(s, i) => PairWritten(s, i)

\* the run is over, the first pair was skipped on its grass side after its
\* crop table was computed, and the second pair has its CSV
C4_Witness ==
    /\ pc = "done"
    /\ Len(scenarios) > FirstScenario
    /\ ~scenarios[Len(scenarios)].grass_files[1].has_yield
    /\ result_crop_df # NoTable
    /\ ~PairWritten(Len(scenarios), 1)
    /\ PairWritten(Len(scenarios), 2)

\* C4 as stated: the side that has 'yield' is still processed and persisted
C4_OtherTrackPersisted ==
    pc = "done" =>
       \A s \in (FirstScenario + 1)..Len(scenarios) : \A i \in 1..PairsOf(s) :
          CropSideHasYield(s, i) \/ GrassSideHasYield(s, i) => PairWritten(s, i)

\* ------------------------------------------------------------------ scenarios

ValidInputs ==
    /\ faulty = {}
    /\ \A g \in 1..Len(crop_aggregation) : \A k \in 1..2 :
          index_of(CropNames, crop_aggregation[g].sub[k]) # 0
    /\ \A s \in 1..Len(scenarios) : \A i \in 1..PairsOf(s) :
          CropSideHasYield(s, i) /\ GrassSideHasYield(s, i)

\* C5 as stated: with valid inputs, a result CSV is persisted for every
\* scenario of the configuration, whatever its position in the list.
C5_EveryScenarioPersisted ==
    pc = "done" /\ ValidInputs =>
       \A s \in 1..Len(scenarios) : WrittenFor(s, "pair") # {}

\* process_scenario has returned for scenario s
Returned(s) == s > FirstScenario /\ (s < si \/ pc = "done")

GroupResolvable(g) ==
    \A k \in 1..2 : index_of(CropNames, crop_aggregation[g].sub[k]) # 0

AllYieldsPresent ==
    \A s \in 1..Len(scenarios) : \A i \in 1..PairsOf(s) :
       CropSideHasYield(s, i) /\ GrassSideHasYield(s, i)

\* C13 as stated: when a component name of a crop group is absent from the
\* crop file's component list, the failure is confined to that group: the
\* run ends with every pair's CSV written, holding the grass columns and the
\* columns of the groups whose names are all present.
C13_FailureConfinedToGroup ==
    (/\ pc \in {"done", "aborted"}
     /\ faulty = {}
     /\ AllYieldsPresent
     /\ \E g \in 1..Len(crop_aggregation) : ~GroupResolvable(g))
    => \A s \in (FirstScenario + 1)..Len(scenarios) : \A i \in 1..PairsOf(s) :
          \E n \in WrittenFor(s, "pair") :
             /\ written[n].idx = i
             /\ [group |-> "grasses", year |-> 1] \in written[n].table.cols
             /\ \A g \in 1..Len(crop_aggregation) :
                   GroupResolvable(g) /\ crop_aggregation[g].name = "Wheat"
                      => [group |-> "spring_wheat", year |-> 1] \in written[n].table.cols


\* ------------------------------------------------------------------ rows of the pair table

\* C15 as stated: in every per-pair table written, no country name appears
\* in two rows, whichever visits failed and however the names are remapped.
C15_OneRowPerCountry ==
    \A n \in 1..Len(written) :
       written[n].kind = "pair" =>
          \A p, q \in 1..Len(written[n].table.rows) :
             written[n].table.rows[p].Country = written[n].table.rows[q].Country => p = q


\* ------------------------------------------------------------------ columns of the pair table

\* the value columns of a complete table: every crop group and grasses, every year
ExpectedColumns ==
    {[group |-> IF crop_aggregation[g].name = "Wheat" THEN "spring_wheat"
                ELSE str_lower(crop_aggregation[g].name),
      year |-> n] : g \in 1..Len(crop_aggregation), n \in 1..years}
        \cup {[group |-> "grasses", year |-> n] : n \in 1..years}

\* C16 as stated: every per-pair table written has one value column for
\* every crop group and for grasses and every year, whichever visits failed.
C16_AllColumnsPresent ==
    \A n \in 1..Len(written) :
       written[n].kind = "pair" => written[n].table.cols = ExpectedColumns


\* ------------------------------------------------------------------ column names

\* the prefix under which group name G is written
PrefixOf(G) ==
    CASE G = "Wheat" -> "spring_wheat"
      [] G = "Corn" -> "corn"
      [] OTHER -> G

\* C18 (as the code has it): the averaged records of group G and 0-based
\* year index y are stored under the field '{prefix}_year{y+1}' and under no
\* other new field, where prefix is 'spring_wheat' for the group named
\* "Wheat" and the lower-cased group name for every other group.
C18_ColumnNaming ==
    [][AveragingStep =>
          \A i \in 1..Len(year_percentage_changes) :
             LET name == year_percentage_changes[i].country
                 field == [group |-> PrefixOf(groups[gi].name), year |-> year + 1]
                 before == IF name \in DOMAIN percentage_changes
                           THEN DOMAIN percentage_changes[name].vals ELSE {}
             IN  DOMAIN percentage_changes'[name].vals = before \cup {field}]_vars

\* a country holds a field of group Wheat and a field of group Corn
C18_Witness ==
    \E c \in DOMAIN percentage_changes :
       /\ [group |-> "spring_wheat", year |-> 1] \in DOMAIN percentage_changes[c].vals
       /\ [group |-> "corn", year |-> 1] \in DOMAIN percentage_changes[c].vals

\* C18 as stated: every field carries the group name as declared in the
\* aggregation mapping, except that "Wheat" is written 'spring_wheat'
C18_NameAsDeclared ==
    \A c \in DOMAIN percentage_changes : \A k \in DOMAIN percentage_changes[c].vals :
       k.group \in {"spring_wheat", "grasses"}
                      \cup {crop_aggregation[g].name : g \in 1..Len(crop_aggregation)}


\* ------------------------------------------------------------------ order of the iteration

\* the (country, iso) of the records that the visits before control
\* realization c, country k leave, in the order control realization, country:
\* one record for every visit that did not raise
RecordsBefore(c, k) ==
    LET group == groups[gi].name
        polygons == gdf
        S == {p \in (1..Len(control_paths)) \X (1..Len(polygons)) :
                 /\ p[1] < c \/ (p[1] = c /\ p[2] < k)
                 /\ [group |-> group, ki |-> p[2], ci |-> p[1]] \notin faulty}
        order == SortBy(S, [p \in S |-> p])
    IN  [i \in 1..Len(order) |->
            <<country_mapping(polygons[order[i][2]].COUNTRY), polygons[order[i][2]].ISO>>]

RecordKeys ==
    [i \in 1..Len(year_percentage_changes) |->
        <<year_percentage_changes[i].country, year_percentage_changes[i].iso>>]

\* a process_yields call begins
YieldsBegin == pc' = "year" /\ gi' = 1 /\ year' = 0 /\ percentage_changes' = <<>>

C20_KeyedByCountryAndIso ==
    (pc = "year" /\ gi > 1 /\ faulty = {}) =>
        \A k \in 1..Len(gdf) :
           \E c \in DOMAIN percentage_changes :
              /\ c = country_mapping(gdf[k].COUNTRY)
              /\ percentage_changes[c].ISO3 = gdf[k].ISO


\* ------------------------------------------------------------------ components of the control files

\* C21 as stated: for a crop group and the control realization at hand, the
\* components summed in the control grid are those that carry the group's
\* rainfed and irrigated names in the control file, and the control total of
\* every country is the total of these named components, also when the
\* control file lists its components in another order than the scenario file.
C21_ControlComponentsByName ==
    (pc = "country" /\ sub_components # <<>>) =>
        LET fp == control_paths[ci]
            names == open_dataset(fp).names
            named == <<index_of(names, sub_components[1]), index_of(names, sub_components[2])>>
        IN  /\ \A n \in 1..2 : names[indices[n]] = sub_components[n]
            /\ \A k \in 1..Len(gdf) :
                  country_total(fp, gdf[k].geometry)
                     = CountryTotals[fp, named, year, gdf[k].geometry]


\* ------------------------------------------------------------------ pairing of the files

\* the polygon stored under a country name (shapefile "countries": one each)
PolygonOf(name) == CHOOSE k \in 1..Len(gdf) : country_mapping(gdf[k].COUNTRY) = name

\* the mean over the control files cpaths, those whose visit raises left
\* out, of the percentage change of polygon k between file fp and the
\* control file, for the component positions pos and year y
ExpectedChange(fp, cpaths, pos, group, k, y) ==
    LET visited == SelectRows([c \in 1..Len(cpaths) |-> c],
                              [c \in 1..Len(cpaths) |->
                                  [group |-> group, ki |-> k, ci |-> c] \notin faulty], 1)
    IN  mean_skipna([j \in 1..Len(visited) |->
            calculate_percentage_change(
                CountryTotals[fp, pos, y, gdf[k].geometry],
                CountryTotals[cpaths[visited[j]], pos, y, gdf[k].geometry])])

\* the value that column col holds for polygon k when the table is computed
\* from the crop file crop_fp and the grass file grass_fp
ExpectedCell(crop_fp, grass_fp, col, k) ==
    IF col.group = "grasses"
    THEN ExpectedChange(grass_fp, control_grass_files, <<>>, "grasses", k, col.year - 1)
    ELSE LET g == CHOOSE h \in 1..Len(crop_aggregation) :
                     PrefixOf(crop_aggregation[h].name) = col.group
             sub == crop_aggregation[g].sub
         IN  ExpectedChange(crop_fp, control_crop_files,
                            <<index_of(CropNames, sub[1]), index_of(CropNames, sub[2])>>,
                            crop_aggregation[g].name, k, col.year - 1)

\* C22: the i-th crop file is paired with the i-th grass file and the pairs
\* processed are those of the shorter list.  Every per-pair table written has
\* an index i up to min(number of crop files, number of grass files), written
\* once, and its cells are the changes computed from the i-th crop file and
\* the i-th grass file; the aggregated table is the mean of the per-pair
\* tables written; and a surplus file raises nothing: when no visit fails and
\* every component name is found, no exception is raised.
C22_PairsByPosition ==
    /\ \A n \in 1..Len(written) :
          written[n].kind = "pair" =>
             LET s == written[n].scenario
                 i == written[n].idx
                 t == written[n].table
             IN  /\ i >= 1 /\ i <= PairsOf(s)
                 /\ \A m \in 1..Len(written) :
                       (written[m].kind = "pair" /\ written[m].scenario = s
                           /\ written[m].idx = i) => m = n
                 /\ shapefile_path = "countries" =>
                       \A r \in 1..Len(t.rows) : \A col \in t.cols :
                          t.rows[r].vals[col] =
                             ExpectedCell(scenarios[s].crop_files[i], scenarios[s].grass_files[i],
                                          col, PolygonOf(t.rows[r].Country))
    /\ \A n \in 1..Len(written) :
          written[n].kind = "aggregated" =>
             LET mine == SelectRows(written,
                            [m \in 1..Len(written) |->
                                written[m].kind = "pair"
                                   /\ written[m].scenario = written[n].scenario], 1)
             IN  written[n].table = concat_groupby_mean([m \in 1..Len(mine) |-> mine[m].table])
    /\ (faulty = {} /\ \A g \in 1..Len(crop_aggregation) : GroupResolvable(g)) => raised = "none"

\* a run is over in which the second crop file of a scenario, which lacks
\* 'yield', had no grass file to be paired with: one pair was written, and
\* nothing was raised
C22_Witness ==
    /\ pc = "done"
    /\ raised = "none"
    /\ Len(scenarios) > FirstScenario
    /\ Len(scenarios[Len(scenarios)].crop_files) = 2
    /\ Len(scenarios[Len(scenarios)].grass_files) = 1
    /\ ~scenarios[Len(scenarios)].crop_files[2].has_yield
    /\ PairWritten(Len(scenarios), 1)
    /\ Cardinality(WrittenFor(Len(scenarios), "pair")) = 1

====
